---------------------------- MODULE Spec2Model ----------------------------
(***************************************************************************)
(* API-Status-Monitor: the prober (app/monitor.py run_check), the store    *)
(* (app/db.py) and the Monitor's threads (app/monitor.py Monitor).         *)
(*                                                                         *)
(* The specifications share the module's variables:                       *)
(*   ProbeSpec   one validated endpoint config, run_check applied to every *)
(*               behaviour of the transport;                               *)
(*   UpsertSpec  upsert_endpoint calls on the endpoints table;             *)
(*   ChecksSpec  insert_check calls on the checks table, read by           *)
(*               get_last_check / get_uptime / get_history;                *)
(*   Spec        the Monitor: start(), stop(), check_now() and the         *)
(*               threads they launch, writing to the store;                *)
(*   FairSpec    Spec with every thread's steps weakly fair;               *)
(*   RestartSpec the Monitor after its first start(), started again;       *)
(*   PostSpec    POST /api/check-now requests (app/httpd.py do_POST) on    *)
(*               the started Monitor;                                      *)
(*   RowsSpec    the started Monitor's loops, run_check meeting every      *)
(*               behaviour of the transport;                               *)
(*   StatusSpec  GET /api/status (app/httpd.py _handle_status) served      *)
(*               while the loops write checks.                             *)
(***************************************************************************)
EXTENDS Integers, Sequences, FiniteSets, TLC

VARIABLES
  probe,         \* ProbeSpec: the config under test, the transport's behaviour, run_check's result
  clock,         \* int(time.time()), epoch seconds
  endpoints,     \* table endpoints, in rowid order
  ep_seq,        \* sqlite_sequence of endpoints (AUTOINCREMENT)
  checks,        \* table checks, in rowid order
  chk_seq,       \* sqlite_sequence of checks (AUTOINCREMENT)
  store_call,    \* the last call made on the store and what it returned
  ins_log,       \* history: the insert_check calls that returned, in order
  endpoint_ids,  \* Monitor._endpoint_ids: name -> id
  stop_set,      \* Monitor._stop (threading.Event)
  start_call,    \* where the call of start() in progress stands
  n_starts,      \* history: the calls of start() made
  threads,       \* every thread the Monitor started: regular loops and check-now threads
  probe_log,     \* the locals of each _check_and_store frame, kept after it ends
  now_log,       \* history: the calls of check_now and what they returned
  responses,     \* history: the POST requests handled and what the handler sent back
  status_req     \* the GET /api/status being handled: its position, its locals, its answer

store_vars == <<clock, endpoints, ep_seq, checks, chk_seq, store_call, ins_log>>
monitor_vars == <<endpoint_ids, stop_set, start_call, n_starts, threads, probe_log, now_log>>
vars == <<probe, store_vars, monitor_vars, responses, status_req>>

(***************************************************************************)
(* Optional values (Python's None).                                        *)
(***************************************************************************)
NoneInt == [isNone |-> TRUE, v |-> 0]
NoneStr == [isNone |-> TRUE, v |-> ""]
NoneList == [isNone |-> TRUE, v |-> <<>>]
Some(x) == [isNone |-> FALSE, v |-> x]

\* no GET /api/status was received yet
NoStatusReq ==
  [pc |-> "idle", served |-> 0, i |-> 0, now |-> 0,
   last |-> [isNone |-> TRUE,
             v |-> [checked_at |-> 0, ok |-> FALSE, status_code |-> NoneInt,
                    latency_ms |-> NoneInt, error |-> NoneStr]],
   up24 |-> <<0, 0>>, out |-> <<>>]

Elems(l) == {l[i] : i \in 1..Len(l)}
RowsOf(table) == {table[i] : i \in 1..Len(table)}

(***************************************************************************)
(* app/config.py                                                           *)
(***************************************************************************)
\* str.strip() on the strings the raw configs use
Strip(s) ==
  CASE s = "   " -> ""
    [] s = " svc/health " -> "svc/health"
    [] s = " a " -> "a"
    [] OTHER -> s

\* raw endpoint objects of the JSON config file; expected_statuses is None, a list of
\* ints (of any length), or a value of another type (tag "bad")
RawUrls == {"http://svc/health", " svc/health ", "   ", ""}
RawExpected ==
  {[tag |-> "none", items |-> <<>>], [tag |-> "list", items |-> <<>>],
   [tag |-> "list", items |-> <<404>>], [tag |-> "list", items |-> <<201, 202>>],
   [tag |-> "bad", items |-> <<>>]}
RawEndpoints ==
  [name : {" a "}, url : RawUrls, method : {"get"}, interval_seconds : {4, 5},
   timeout_seconds : {0, 1}, expected_statuses : RawExpected]

\* the checks of _validate_endpoint that raise ValueError
validate_ok(raw) ==
  /\ Strip(raw.name) # ""
  /\ Strip(raw.url) # ""
  /\ Strip(raw.method) # ""
  /\ raw.interval_seconds >= 5
  /\ raw.timeout_seconds >= 1
  /\ raw.expected_statuses.tag # "bad"

Upper(s) == CASE s = "get" -> "GET" [] OTHER -> s

\* the EndpointConfig _validate_endpoint returns for a raw object it accepts
_validate_endpoint(raw) ==
  [name |-> Strip(raw.name),
   url |-> Strip(raw.url),
   method |-> Upper(Strip(raw.method)),
   interval_seconds |-> raw.interval_seconds,
   timeout_seconds |-> raw.timeout_seconds,
   headers |-> NoneList,
   expected_statuses |->
     IF raw.expected_statuses.tag = "none" THEN NoneList
     ELSE Some(raw.expected_statuses.items)]

ValidatedConfigs == {_validate_endpoint(raw) : raw \in {r \in RawEndpoints : validate_ok(r)}}

(***************************************************************************)
(* app/monitor.py: the prober                                              *)
(***************************************************************************)
\* Python truthiness of "expected_statuses": neither None nor the empty list
Truthy(expected_statuses) == ~expected_statuses.isNone /\ Len(expected_statuses.v) > 0

is_ok_status_mut(status, expected_statuses) ==
  IF Truthy(expected_statuses)
  THEN status \in Elems(expected_statuses.v)
  ELSE 200 <= status /\ status <= 400

_is_ok_status(status, expected_statuses) ==
  IF Truthy(expected_statuses)
  THEN status \in Elems(expected_statuses.v)
  ELSE 200 <= status /\ status < 400

\* urllib.request.Request(url, ...) raises ValueError("unknown url type") for a url
\* with no scheme; of the urls used here these two have one
Request_ok(url) == url \in {"http://svc/health", "http://svc/v2"}

\* what the transport (urlopen) does with the request
StatusCodes == {200, 201, 202, 304, 399, 400, 404, 500}
HTTPErrorCodes == {s \in StatusCodes : s >= 300}
Latencies == {0, 12}
Transports ==
  [kind : {"response"}, status : StatusCodes, etype : {""}, msg : {""}, latency_ms : Latencies]
  \cup
  [kind : {"HTTPError"}, status : HTTPErrorCodes, etype : {"HTTPError"}, msg : {"reason"},
   latency_ms : Latencies]
  \cup
  [kind : {"exception"}, status : {0}, etype : {"URLError", "TimeoutError", "BadStatusLine"},
   msg : {"", "timed out"}, latency_ms : Latencies]
NoTransport == [kind |-> "none", status |-> 0, etype |-> "", msg |-> "", latency_ms |-> 0]

Outcome(ok, status, latency_ms, error) ==
  [raised |-> "", ok |-> ok, status_code |-> status, latency_ms |-> latency_ms, error |-> error]
Raised(etype) ==
  [raised |-> etype, ok |-> FALSE, status_code |-> NoneInt, latency_ms |-> NoneInt,
   error |-> NoneStr]

\* the "with urlopen(...) as resp" block
on_response(ep, t) ==
  Outcome(_is_ok_status(t.status, ep.expected_statuses), Some(t.status), Some(t.latency_ms),
          NoneStr)

\* the error text is dropped
on_http_error_mut(ep, t) ==
  Outcome(FALSE, IF t.status = 0 THEN NoneInt ELSE Some(t.status), Some(t.latency_ms), NoneStr)

\* except urllib.error.HTTPError as e
on_http_error(ep, t) ==
  Outcome(FALSE,
          IF t.status = 0 THEN NoneInt ELSE Some(t.status),
          Some(t.latency_ms),
          Some("HTTP Error " \o ToString(t.status) \o ": " \o t.msg))

on_exception_mut(ep, t) ==
  Outcome(FALSE, NoneInt, Some(t.latency_ms), Some(t.msg))

\* except Exception as e
on_exception(ep, t) ==
  Outcome(FALSE, NoneInt, Some(t.latency_ms), Some(t.etype \o ": " \o t.msg))

run_check(ep, t) ==
  IF ~Request_ok(ep.url) THEN Raised("ValueError")
  ELSE CASE t.kind = "response" -> on_response(ep, t)
         [] t.kind = "HTTPError" -> on_http_error(ep, t)
         [] OTHER -> on_exception(ep, t)

\* the transport behaviour a call of run_check meets: none when Request() raised
Met(ep, t) == IF Request_ok(ep.url) THEN t ELSE NoTransport

(***************************************************************************)
(* ProbeSpec: run_check on one validated config                            *)
(***************************************************************************)
StoreIdle ==
  /\ clock = 0
  /\ endpoints = <<>>
  /\ ep_seq = 0
  /\ checks = <<>>
  /\ chk_seq = 0
  /\ store_call = [op |-> "none", raised |-> ""]
  /\ ins_log = <<>>

\* the Monitor as constructed and never started
MonitorIdle ==
  /\ endpoint_ids = [n \in {} |-> 0]
  /\ stop_set = FALSE
  /\ start_call = [pc |-> "idle", i |-> 0]
  /\ n_starts = 0
  /\ threads = <<>>
  /\ probe_log = <<>>
  /\ now_log = <<>>
  /\ responses = <<>>
  /\ status_req = NoStatusReq

NoProbe(ep) == [ep |-> ep, called |-> FALSE, t |-> NoTransport, res |-> Raised("")]

ProbeInit ==
  /\ probe \in {NoProbe(ep) : ep \in ValidatedConfigs}
  /\ StoreIdle
  /\ MonitorIdle

RunCheck ==
  \E t \in Transports :
    /\ probe' = [ep |-> probe.ep, called |-> TRUE, t |-> Met(probe.ep, t),
                 res |-> run_check(probe.ep, t)]
    /\ UNCHANGED <<store_vars, monitor_vars, responses, status_req>>


(***************************************************************************)
(* app/db.py: the store                                                    *)
(***************************************************************************)
RECURSIVE JoinInts(_)
JoinInts(l) ==
  IF Len(l) = 0 THEN ""
  ELSE IF Len(l) = 1 THEN ToString(l[1])
  ELSE ToString(l[1]) \o ", " \o JoinInts(Tail(l))

RECURSIVE JoinPairs(_)
JoinPairs(l) ==
  IF Len(l) = 0 THEN ""
  ELSE LET kv == "\"" \o l[1][1] \o "\": \"" \o l[1][2] \o "\""
       IN IF Len(l) = 1 THEN kv ELSE kv \o ", " \o JoinPairs(Tail(l))

\* json.dumps of a list of ints and of a str -> str dict (a list of pairs here)
json_dumps_list(l) == "[" \o JoinInts(l) \o "]"
json_dumps_dict(d) == "{" \o JoinPairs(d) \o "}"

\* the keyword arguments Monitor.start() passes to upsert_endpoint for a config
upsert_args(ep) ==
  [name |-> ep.name,
   url |-> ep.url,
   method |-> ep.method,
   interval_seconds |-> ep.interval_seconds,
   timeout_seconds |-> ep.timeout_seconds,
   headers_json |->
     IF Truthy(ep.headers) THEN Some(json_dumps_dict(ep.headers.v)) ELSE NoneStr,
   expected_statuses_json |->
     IF Truthy(ep.expected_statuses) THEN Some(json_dumps_list(ep.expected_statuses.v))
     ELSE NoneStr]

EndpointRow(id, a, created_at) ==
  [id |-> id, name |-> a.name, url |-> a.url, method |-> a.method,
   interval_seconds |-> a.interval_seconds, timeout_seconds |-> a.timeout_seconds,
   headers_json |-> a.headers_json, expected_statuses_json |-> a.expected_statuses_json,
   created_at |-> created_at]

NameIndex(table, name) ==
  IF \E i \in 1..Len(table) : table[i].name = name
  THEN CHOOSE i \in 1..Len(table) : table[i].name = name
  ELSE 0

\* INSERT OR REPLACE: the conflicting row is deleted and a new one inserted
upsert_table_mut(table, seq, a, now) ==
  LET i == NameIndex(table, a.name)
      kept == SelectSeq(table, LAMBDA r : r.name # a.name)
  IN [table |-> Append(kept, EndpointRow(seq + 1, a, now)), seq |-> seq + 1]

\* INSERT INTO endpoints ... ON CONFLICT(name) DO UPDATE SET ...: the table and
\* sqlite_sequence after the statement
upsert_table(table, seq, a, now) ==
  LET i == NameIndex(table, a.name)
  IN IF i = 0
     THEN [table |-> Append(table, EndpointRow(seq + 1, a, now)), seq |-> seq + 1]
     ELSE [table |-> [table EXCEPT ![i] = EndpointRow(table[i].id, a, table[i].created_at)],
           seq |-> seq]

\* SELECT id FROM endpoints WHERE name = ?
select_id(table, name) == table[NameIndex(table, name)].id

NoEndpointRow ==
  [id |-> 0, name |-> "", url |-> "", method |-> "", interval_seconds |-> 0,
   timeout_seconds |-> 0, headers_json |-> NoneStr, expected_statuses_json |-> NoneStr,
   created_at |-> 0]

RowBefore(table, name) ==
  IF NameIndex(table, name) = 0 THEN NoEndpointRow ELSE table[NameIndex(table, name)]

\* upsert_endpoint(conn, **upsert_args(ep)) returning the row's id
upsert_endpoint(ep) ==
  LET a == upsert_args(ep)
      r == upsert_table(endpoints, ep_seq, a, clock)
  IN /\ endpoints' = r.table
     /\ ep_seq' = r.seq
     /\ store_call' = [op |-> "upsert_endpoint", ep |-> ep, raised |-> "",
                       ret |-> select_id(r.table, a.name),
                       before |-> RowBefore(endpoints, a.name)]

\* the statement fails (sqlite3.Error: I/O, database locked past the timeout): nothing
\* is written and the exception leaves upsert_endpoint
upsert_endpoint_fails(ep) ==
  /\ store_call' = [op |-> "upsert_endpoint", ep |-> ep, raised |-> "sqlite3.Error",
                    ret |-> 0, before |-> RowBefore(endpoints, ep.name)]
  /\ UNCHANGED <<endpoints, ep_seq>>

(***************************************************************************)
(* UpsertSpec: upsert_endpoint calls, as start() makes them, over runs     *)
(* with changed configs                                                    *)
(***************************************************************************)
MaxTime == 1

Hdr == << <<"X-Key", "v">> >>
Cfg(name, url, method, interval, timeout, headers, expected) ==
  [name |-> name, url |-> url, method |-> method, interval_seconds |-> interval,
   timeout_seconds |-> timeout, headers |-> headers, expected_statuses |-> expected]
UpsertConfigs ==
  UNION {{Cfg(n, "http://svc/health", "GET", 30, 10, NoneList, NoneList),
          Cfg(n, "http://svc/v2", "HEAD", 5, 1, Some(Hdr), Some(<<201, 202>>)),
          Cfg(n, "http://svc/health", "GET", 30, 10, Some(<<>>), Some(<<>>))} :
         n \in {"a", "b"}}

UpsertInit ==
  /\ probe = NoProbe(Cfg("a", "http://svc/health", "GET", 30, 10, NoneList, NoneList))
  /\ StoreIdle
  /\ MonitorIdle

Tick ==
  /\ clock < MaxTime
  /\ clock' = clock + 1
  /\ UNCHANGED <<probe, responses, status_req, endpoints, ep_seq, checks, chk_seq, store_call, ins_log, monitor_vars>>

UpsertEndpoint ==
  \E ep \in UpsertConfigs :
    /\ upsert_endpoint(ep)
    /\ UNCHANGED <<probe, responses, status_req, clock, checks, chk_seq, ins_log, monitor_vars>>

UpsertEndpointFails ==
  \E ep \in UpsertConfigs :
    /\ upsert_endpoint_fails(ep)
    /\ UNCHANGED <<probe, responses, status_req, clock, checks, chk_seq, ins_log, monitor_vars>>

UpsertNext == Tick \/ UpsertEndpoint \/ UpsertEndpointFails

(***************************************************************************)
(* app/db.py: the checks table and its queries                             *)
(***************************************************************************)
\* the positional parameters of the INSERT: ok is stored as 1 or 0
CheckTableRow(id, a) ==
  [id |-> id, endpoint_id |-> a.endpoint_id, checked_at |-> a.checked_at,
   ok |-> IF a.ok THEN 1 ELSE 0, status_code |-> a.status_code,
   latency_ms |-> a.latency_ms, error |-> a.error]

\* FOREIGN KEY(endpoint_id) REFERENCES endpoints(id), with PRAGMA foreign_keys=ON
fk_ok(endpoint_id) == \E i \in 1..Len(endpoints) : endpoints[i].id = endpoint_id

\* the row is written with ok inverted
insert_check_mut(a) ==
  /\ fk_ok(a.endpoint_id)
  /\ checks' = Append(checks, CheckTableRow(chk_seq + 1, [a EXCEPT !.ok = ~a.ok]))
  /\ chk_seq' = chk_seq + 1
  /\ ins_log' = Append(ins_log, a)
  /\ store_call' = [op |-> "insert_check", raised |-> ""]

\* a write replaces the row another writer just added for the same endpoint and second
insert_check_lost(a) ==
  /\ fk_ok(a.endpoint_id)
  /\ checks' = IF /\ Len(checks) > 0
                  /\ checks[Len(checks)].endpoint_id = a.endpoint_id
                  /\ checks[Len(checks)].checked_at = a.checked_at
               THEN [checks EXCEPT ![Len(checks)] = CheckTableRow(chk_seq + 1, a)]
               ELSE Append(checks, CheckTableRow(chk_seq + 1, a))
  /\ chk_seq' = chk_seq + 1
  /\ ins_log' = Append(ins_log, a)
  /\ store_call' = [op |-> "insert_check", raised |-> ""]

\* insert_check(conn, endpoint_id=..., ...) returning normally
insert_check(a) ==
  /\ fk_ok(a.endpoint_id)
  /\ checks' = Append(checks, CheckTableRow(chk_seq + 1, a))
  /\ chk_seq' = chk_seq + 1
  /\ ins_log' = Append(ins_log, a)
  /\ store_call' = [op |-> "insert_check", raised |-> ""]

\* the INSERT fails: the foreign key has no row (IntegrityError), or sqlite gives up
\* (OperationalError: I/O, database locked past the timeout); nothing is written
insert_check_fails(a) ==
  /\ store_call' = [op |-> "insert_check",
                    raised |-> IF fk_ok(a.endpoint_id) THEN "OperationalError"
                               ELSE "IntegrityError"]
  /\ UNCHANGED <<checks, chk_seq, ins_log>>

\* CheckRow(checked_at=int(row[0]), ok=bool(row[1]), ...)
CheckRow(r) ==
  [checked_at |-> r.checked_at, ok |-> r.ok # 0, status_code |-> r.status_code,
   latency_ms |-> r.latency_ms, error |-> r.error]
NoCheckRow ==
  [isNone |-> TRUE,
   v |-> [checked_at |-> 0, ok |-> FALSE, status_code |-> NoneInt, latency_ms |-> NoneInt,
          error |-> NoneStr]]

\* WHERE endpoint_id = ?
OfEndpoint(endpoint_id) == {r \in RowsOf(checks) : r.endpoint_id = endpoint_id}

\* ties on checked_at come out oldest first
Newer_mut(r, q) ==
  r.checked_at > q.checked_at \/ (r.checked_at = q.checked_at /\ r.id < q.id)

\* ORDER BY checked_at DESC, id DESC: r comes before q
Newer(r, q) ==
  r.checked_at > q.checked_at \/ (r.checked_at = q.checked_at /\ r.id > q.id)

RECURSIVE OrderDesc(_)
OrderDesc(S) ==
  IF S = {} THEN <<>>
  ELSE LET top == CHOOSE r \in S : \A q \in S \ {r} : Newer(r, q)
       IN <<top>> \o OrderDesc(S \ {top})

\* LIMIT n: a negative n is no limit in SQLite
sql_limit(rows, n) ==
  IF n < 0 \/ n >= Len(rows) THEN rows ELSE SubSeq(rows, 1, n)

RECURSIVE SumOk(_)
SumOk(S) ==
  IF S = {} THEN 0
  ELSE LET r == CHOOSE x \in S : TRUE IN r.ok + SumOk(S \ {r})

get_last_check(endpoint_id) ==
  LET rows == sql_limit(OrderDesc(OfEndpoint(endpoint_id)), 1)
  IN IF Len(rows) = 0 THEN NoCheckRow ELSE Some(CheckRow(rows[1]))

\* the window test is strict
get_uptime_mut(endpoint_id, since_ts) ==
  LET rows == IF since_ts.isNone THEN OfEndpoint(endpoint_id)
              ELSE {r \in OfEndpoint(endpoint_id) : r.checked_at > since_ts.v}
  IN <<SumOk(rows), Cardinality(rows)>>

\* SELECT SUM(ok), COUNT(*): SUM over no rows is NULL, which "or 0" turns into 0
get_uptime(endpoint_id, since_ts) ==
  LET rows == IF since_ts.isNone THEN OfEndpoint(endpoint_id)
              ELSE {r \in OfEndpoint(endpoint_id) : r.checked_at >= since_ts.v}
      sum == IF rows = {} THEN NoneInt ELSE Some(SumOk(rows))
  IN <<IF sum.isNone \/ sum.v = 0 THEN 0 ELSE sum.v, Cardinality(rows)>>

\* the LIMIT is left out
select_history_mut(endpoint_id, limit) == OrderDesc(OfEndpoint(endpoint_id))

\* the rows the SELECT of get_history yields, in its order
select_history(endpoint_id, limit) == sql_limit(OrderDesc(OfEndpoint(endpoint_id)), limit)

get_history(endpoint_id, limit) ==
  LET rows == select_history(endpoint_id, limit)
  IN [i \in 1..Len(rows) |-> CheckRow(rows[i])]

(***************************************************************************)
(* ChecksSpec: insert_check calls on a store whose endpoints start() has   *)
(* upserted                                                                *)
(***************************************************************************)
MaxChecks == 3
MaxCheckedAt == 1

StoreConfigs ==
  <<Cfg("a", "http://svc/health", "GET", 30, 10, NoneList, NoneList),
    Cfg("b", "http://svc/v2", "HEAD", 5, 1, Some(Hdr), Some(<<201, 202>>))>>

RECURSIVE UpsertAll(_, _, _, _)
UpsertAll(table, seq, eps, now) ==
  IF Len(eps) = 0 THEN [table |-> table, seq |-> seq]
  ELSE LET r == upsert_table(table, seq, upsert_args(eps[1]), now)
       IN UpsertAll(r.table, r.seq, Tail(eps), now)

\* the values _check_and_store passes: an outcome of run_check and a timestamp
CheckOutcomes ==
  {run_check(StoreConfigs[1], t) :
     t \in {[kind |-> "response", status |-> 200, etype |-> "", msg |-> "", latency_ms |-> 12],
            [kind |-> "exception", status |-> 0, etype |-> "TimeoutError",
             msg |-> "timed out", latency_ms |-> 0]}}
InsertArgs ==
  {[endpoint_id |-> id, checked_at |-> at, ok |-> o.ok, status_code |-> o.status_code,
    latency_ms |-> o.latency_ms, error |-> o.error] :
     id \in 1..(Len(StoreConfigs) + 1), at \in 0..MaxCheckedAt, o \in CheckOutcomes}

ChecksInit ==
  /\ probe = NoProbe(StoreConfigs[1])
  /\ clock = 0
  /\ endpoints = UpsertAll(<<>>, 0, StoreConfigs, 0).table
  /\ ep_seq = UpsertAll(<<>>, 0, StoreConfigs, 0).seq
  /\ checks = <<>>
  /\ chk_seq = 0
  /\ store_call = [op |-> "none", raised |-> ""]
  /\ ins_log = <<>>
  /\ MonitorIdle

InsertCheck ==
  \E a \in InsertArgs :
    /\ Len(checks) < MaxChecks
    /\ insert_check(a)
    /\ UNCHANGED <<probe, responses, status_req, clock, endpoints, ep_seq, monitor_vars>>

InsertCheckFails ==
  \E a \in InsertArgs :
    /\ insert_check_fails(a)
    /\ UNCHANGED <<probe, responses, status_req, clock, endpoints, ep_seq, monitor_vars>>

ChecksNext == InsertCheck \/ InsertCheckFails



ProbeNext == RunCheck

(***************************************************************************)
(* app/monitor.py: the Monitor                                             *)
(***************************************************************************)
MaxStarts == 1
MaxNow == 1
MaxProbes == 2

\* what the transport does with a probe the Monitor runs
MonitorTransports ==
  {[kind |-> "response", status |-> 200, etype |-> "", msg |-> "", latency_ms |-> 12],
   [kind |-> "exception", status |-> 0, etype |-> "TimeoutError", msg |-> "timed out",
    latency_ms |-> 0]}

Thread(kind, k, pc) == [kind |-> kind, ep |-> k, pc |-> pc, cur |-> 0]

\* the probes made and the probes decided on (a thread about to call run_check): the
\* model follows at most MaxProbes of them
Committed == Len(probe_log) + Cardinality({i \in 1..Len(threads) : threads[i].pc = "probe"})

\* start(): conn = connect(...) succeeded, the upsert loop is next
Start ==
  /\ start_call.pc \in {"idle", "returned", "raised"}
  /\ n_starts < MaxStarts
  /\ n_starts' = n_starts + 1
  /\ start_call' = IF Len(StoreConfigs) = 0 THEN [pc |-> "returned", i |-> 0]
                   ELSE [pc |-> "upsert", i |-> 1]
  /\ UNCHANGED <<probe, responses, status_req, store_vars, endpoint_ids, stop_set, threads, probe_log, now_log>>

\* start(): connect(...) raises
StartConnectFails ==
  /\ start_call.pc \in {"idle", "returned", "raised"}
  /\ n_starts < MaxStarts
  /\ n_starts' = n_starts + 1
  /\ start_call' = [pc |-> "raised", i |-> 0]
  /\ UNCHANGED <<probe, responses, status_req, store_vars, endpoint_ids, stop_set, threads, probe_log, now_log>>

\* the mapping gets another row's id
StartUpsert_mut ==
  /\ start_call.pc = "upsert"
  /\ LET ep == StoreConfigs[start_call.i]
         id == select_id(upsert_table(endpoints, ep_seq, upsert_args(ep), clock).table, ep.name)
     IN /\ upsert_endpoint(ep)
        /\ endpoint_ids' = [n \in DOMAIN endpoint_ids \cup {ep.name} |->
                              IF n = ep.name THEN id + 1 ELSE endpoint_ids[n]]
  /\ start_call' = IF start_call.i = Len(StoreConfigs) THEN [pc |-> "launch", i |-> 1]
                   ELSE [pc |-> "upsert", i |-> start_call.i + 1]
  /\ UNCHANGED <<probe, responses, status_req, clock, checks, chk_seq, ins_log, stop_set, n_starts,
                 threads, probe_log, now_log>>

\* start(): one turn of the upsert loop
StartUpsert ==
  /\ start_call.pc = "upsert"
  /\ LET ep == StoreConfigs[start_call.i]
         id == select_id(upsert_table(endpoints, ep_seq, upsert_args(ep), clock).table, ep.name)
     IN /\ upsert_endpoint(ep)
        /\ endpoint_ids' = [n \in DOMAIN endpoint_ids \cup {ep.name} |->
                              IF n = ep.name THEN id ELSE endpoint_ids[n]]
  /\ start_call' = IF start_call.i = Len(StoreConfigs) THEN [pc |-> "launch", i |-> 1]
                   ELSE [pc |-> "upsert", i |-> start_call.i + 1]
  /\ UNCHANGED <<probe, responses, status_req, clock, checks, chk_seq, ins_log, stop_set, n_starts, threads,
                 probe_log, now_log>>

\* the failure of the upsert is swallowed and the threads are launched all the same
StartUpsertFails_mut ==
  /\ start_call.pc = "upsert"
  /\ upsert_endpoint_fails(StoreConfigs[start_call.i])
  /\ start_call' = [pc |-> "launch", i |-> 1]
  /\ UNCHANGED <<probe, responses, status_req, clock, checks, chk_seq, ins_log, endpoint_ids, stop_set,
                 n_starts, threads, probe_log, now_log>>

\* start(): upsert_endpoint raises; the finally closes the connection and start() raises
StartUpsertFails ==
  /\ start_call.pc = "upsert"
  /\ upsert_endpoint_fails(StoreConfigs[start_call.i])
  /\ start_call' = [pc |-> "raised", i |-> 0]
  /\ UNCHANGED <<probe, responses, status_req, clock, checks, chk_seq, ins_log, endpoint_ids, stop_set, n_starts,
                 threads, probe_log, now_log>>

\* start(): one turn of the loop that starts the monitor:<name> threads
StartLaunch ==
  /\ start_call.pc = "launch"
  /\ threads' = Append(threads, Thread("loop", start_call.i, "stagger"))
  /\ start_call' = IF start_call.i = Len(StoreConfigs) THEN [pc |-> "returned", i |-> 0]
                   ELSE [pc |-> "launch", i |-> start_call.i + 1]
  /\ UNCHANGED <<probe, responses, status_req, store_vars, endpoint_ids, stop_set, n_starts, probe_log, now_log>>

\* stop(): the event is set; the joins (2 s each) change nothing
Stop ==
  /\ stop_set' = TRUE
  /\ UNCHANGED <<probe, responses, status_req, store_vars, endpoint_ids, start_call, n_starts, threads, probe_log,
                 now_log>>

FirstNamed(name) ==
  LET known == {k \in 1..Len(StoreConfigs) : StoreConfigs[k].name = name}
  IN IF known = {} THEN 0 ELSE CHOOSE k \in known : \A j \in known : k <= j

check_now(name) ==
  LET k == FirstNamed(name)
  IN IF k = 0
     THEN /\ now_log' = Append(now_log, [name |-> name, ret |-> FALSE, thread |-> 0])
          /\ UNCHANGED threads
     ELSE /\ threads' = Append(threads, Thread("check-now", k, "probe"))
          /\ now_log' = Append(now_log, [name |-> name, ret |-> TRUE,
                                         thread |-> Len(threads) + 1])

CheckNow ==
  \E name \in {StoreConfigs[k].name : k \in 1..Len(StoreConfigs)} \cup {"missing"} :
    /\ Len(now_log) < MaxNow
    /\ FirstNamed(name) # 0 => Committed < MaxProbes
    /\ check_now(name)
    /\ UNCHANGED <<probe, responses, status_req, store_vars, endpoint_ids, stop_set, start_call, n_starts, probe_log>>

\* the event is tested after an interval wait only, not after the start-up stagger
LoopTest_late(i) ==
  /\ threads[i].kind = "loop" /\ threads[i].pc \in {"stagger", "wait"}
  /\ (stop_set /\ threads[i].pc = "wait") \/ Committed < MaxProbes
  /\ threads' = [threads EXCEPT ![i].pc = IF stop_set /\ threads[i].pc = "wait" THEN "exit"
                                         ELSE "probe"]
  /\ UNCHANGED <<probe, responses, status_req, store_vars, endpoint_ids, stop_set, start_call, n_starts,
                 probe_log, now_log>>

\* the loop tests nothing: it goes on to the next check whatever the event says
LoopTest_mut(i) ==
  /\ threads[i].kind = "loop" /\ threads[i].pc \in {"stagger", "wait"}
  /\ Committed < MaxProbes
  /\ threads' = [threads EXCEPT ![i].pc = "probe"]
  /\ UNCHANGED <<probe, responses, status_req, store_vars, endpoint_ids, stop_set, start_call, n_starts,
                 probe_log, now_log>>

\* _loop_endpoint: time.sleep(0.2) or self._stop.wait(interval) returns (the interval
\* elapsed or the event is set) and "while not self._stop.is_set()" is evaluated
LoopTest(i) ==
  /\ threads[i].kind = "loop" /\ threads[i].pc \in {"stagger", "wait"}
  /\ stop_set \/ Committed < MaxProbes
  /\ threads' = [threads EXCEPT ![i].pc = IF stop_set THEN "exit" ELSE "probe"]
  /\ UNCHANGED <<probe, responses, status_req, store_vars, endpoint_ids, stop_set, start_call, n_starts, probe_log,
                 now_log>>

\* _check_and_store: run_check(ep), the transport doing one of ts, then
\* checked_at = int(time.time())
probe_step(i, ts) ==
  /\ threads[i].pc = "probe"
  /\ \E t \in ts :
       LET res == run_check(StoreConfigs[threads[i].ep], t)
       IN IF res.raised # ""
          THEN /\ threads' = [threads EXCEPT ![i].pc = "died"]
               /\ UNCHANGED probe_log
          ELSE /\ probe_log' = Append(probe_log,
                                      [thread |-> i, ep |-> threads[i].ep, t |-> t, res |-> res,
                                       checked_at |-> clock, stopped |-> stop_set,
                                       state |-> "running", raised |-> "", row |-> 0])
               /\ threads' = [threads EXCEPT ![i].pc = "store", ![i].cur = Len(probe_log) + 1]
  /\ UNCHANGED <<probe, responses, status_req, store_vars, endpoint_ids, stop_set, start_call,
                 n_starts, now_log>>

ProbeStep(i) == probe_step(i, MonitorTransports)

\* the frame of thread i ends: with its row written, or by the exception raised
Stored(i, row) == [probe_log EXCEPT ![threads[i].cur].state = "stored",
                                    ![threads[i].cur].row = row]
Failed(i, raised) == [probe_log EXCEPT ![threads[i].cur].state = "failed",
                                       ![threads[i].cur].raised = raised]

\* the row is written twice
store_step_mut(i) ==
  LET p == probe_log[threads[i].cur]
      name == StoreConfigs[p.ep].name
      a == [endpoint_id |-> endpoint_ids[name], checked_at |-> p.checked_at,
            ok |-> p.res.ok, status_code |-> p.res.status_code,
            latency_ms |-> p.res.latency_ms, error |-> p.res.error]
  IN IF name \notin DOMAIN endpoint_ids
     THEN /\ threads' = [threads EXCEPT ![i].pc = "died"]
          /\ probe_log' = Failed(i, "KeyError")
          /\ UNCHANGED <<checks, chk_seq, ins_log, store_call>>
     ELSE /\ checks' = checks \o <<CheckTableRow(chk_seq + 1, a), CheckTableRow(chk_seq + 2, a)>>
          /\ chk_seq' = chk_seq + 2
          /\ ins_log' = ins_log \o <<a, a>>
          /\ store_call' = [op |-> "insert_check", raised |-> ""]
          /\ probe_log' = Stored(i, chk_seq + 1)
          /\ threads' = [threads EXCEPT ![i].pc = IF threads[i].kind = "loop" THEN "wait"
                                                  ELSE "exit"]

\* _check_and_store: connect, self._endpoint_ids[ep.name] (KeyError when the name has no
\* id), insert_check, close
store_step(i) ==
  LET p == probe_log[threads[i].cur]
      name == StoreConfigs[p.ep].name
  IN IF name \notin DOMAIN endpoint_ids
     THEN /\ threads' = [threads EXCEPT ![i].pc = "died"]
          /\ probe_log' = Failed(i, "KeyError")
          /\ UNCHANGED <<checks, chk_seq, ins_log, store_call>>
     ELSE /\ insert_check([endpoint_id |-> endpoint_ids[name], checked_at |-> p.checked_at,
                           ok |-> p.res.ok, status_code |-> p.res.status_code,
                           latency_ms |-> p.res.latency_ms, error |-> p.res.error])
          /\ probe_log' = Stored(i, chk_seq + 1)
          /\ threads' = [threads EXCEPT ![i].pc = IF threads[i].kind = "loop" THEN "wait"
                                                  ELSE "exit"]

StoreStep(i) ==
  /\ threads[i].pc = "store"
  /\ store_step(i)
  /\ UNCHANGED <<probe, responses, status_req, clock, endpoints, ep_seq, endpoint_ids, stop_set, start_call,
                 n_starts, now_log>>

\* the exception of one thread takes every thread down
StoreStepFails_mut(i) ==
  /\ threads[i].pc = "store"
  /\ store_call' = [op |-> "insert_check", raised |-> "OperationalError"]
  /\ threads' = [j \in 1..Len(threads) |-> [threads[j] EXCEPT !.pc = "died"]]
  /\ probe_log' = Failed(i, "OperationalError")
  /\ UNCHANGED <<probe, responses, status_req, clock, endpoints, ep_seq, checks, chk_seq, ins_log,
                 endpoint_ids, stop_set, start_call, n_starts, now_log>>

\* _check_and_store: connect or insert_check raises sqlite3.Error; nothing is written and
\* the exception ends the thread (no caller catches it)
StoreStepFails(i) ==
  /\ threads[i].pc = "store"
  /\ store_call' = [op |-> "insert_check", raised |-> "OperationalError"]
  /\ threads' = [threads EXCEPT ![i].pc = "died"]
  /\ probe_log' = Failed(i, "OperationalError")
  /\ UNCHANGED <<probe, responses, status_req, clock, endpoints, ep_seq, checks, chk_seq, ins_log, endpoint_ids,
                 stop_set, start_call, n_starts, now_log>>

ThreadStep ==
  \E i \in 1..Len(threads) :
    \/ LoopTest(i)
    \/ ProbeStep(i)
    \/ StoreStep(i)
    \/ StoreStepFails(i)

Init ==
  /\ probe = NoProbe(StoreConfigs[1])
  /\ StoreIdle
  /\ MonitorIdle

Next ==
  \/ Tick
  \/ Start
  \/ StartConnectFails
  \/ StartUpsert
  \/ StartUpsertFails
  \/ StartLaunch
  \/ Stop
  \/ CheckNow
  \/ ThreadStep

(***************************************************************************)
(* app/httpd.py: POST /api/check-now, served once start() has returned     *)
(***************************************************************************)
MaxPosts == 2
MaxLength == 20

\* the Monitor and the store as main() leaves them when serve() is called: start() has
\* returned, every endpoint is upserted and mapped, every loop is in its stagger
AfterStart ==
  LET up == UpsertAll(<<>>, 0, StoreConfigs, 0)
  IN /\ clock = 0
     /\ endpoints = up.table
     /\ ep_seq = up.seq
     /\ checks = <<>>
     /\ chk_seq = 0
     /\ store_call = [op |-> "upsert_endpoint", ep |-> StoreConfigs[Len(StoreConfigs)],
                      raised |-> "",
                      ret |-> select_id(up.table, StoreConfigs[Len(StoreConfigs)].name),
                      before |-> NoEndpointRow]
     /\ ins_log = <<>>
     /\ endpoint_ids = [n \in {StoreConfigs[k].name : k \in 1..Len(StoreConfigs)} |->
                          select_id(up.table, n)]
     /\ stop_set = FALSE
     /\ start_call = [pc |-> "returned", i |-> 0]
     /\ n_starts = 1
     /\ threads = [k \in 1..Len(StoreConfigs) |-> Thread("loop", k, "stagger")]
     /\ probe_log = <<>>
     /\ now_log = <<>>
     /\ responses = <<>>
     /\ status_req = NoStatusReq

\* a parsed JSON value: its type, its text when a string, and for an object whether it
\* has the key "name" and that member's type and text
JVal(t, str) == [t |-> t, s |-> str, has |-> FALSE, nt |-> "", ns |-> ""]
JObj(has, nt, ns) == [t |-> "dict", s |-> "", has |-> has, nt |-> nt, ns |-> ns]
JError == JVal("error", "")

\* the request bodies sent, and bytes.decode("utf-8") on them: "<FF>" stands for bytes
\* that are no UTF-8 text
Bodies ==
  {"{}", "{\"name\":\"a\"}", "{\"name\":\" a \"}", "{\"name\":\"missing\"}",
   "{\"name\":\"   \"}", "{\"name\":\"\"}", "{\"name\":5}", "{\"name\":null}",
   "{\"id\":1}", "[\"a\"]", "\"a\"", "5", "null", "{name", " ", "<FF>"}
decode_ok(raw) == raw # "<FF>"

\* json.loads on the decoded text; JError is json.JSONDecodeError
json_loads(text) ==
  CASE text = "{}" -> JObj(FALSE, "", "")
    [] text = "{\"name\":\"a\"}" -> JObj(TRUE, "str", "a")
    [] text = "{\"name\":\" a \"}" -> JObj(TRUE, "str", " a ")
    [] text = "{\"name\":\"missing\"}" -> JObj(TRUE, "str", "missing")
    [] text = "{\"name\":\"   \"}" -> JObj(TRUE, "str", "   ")
    [] text = "{\"name\":\"\"}" -> JObj(TRUE, "str", "")
    [] text = "{\"name\":5}" -> JObj(TRUE, "int", "")
    [] text = "{\"name\":null}" -> JObj(TRUE, "null", "")
    [] text = "{\"id\":1}" -> JObj(FALSE, "", "")
    [] text = "[\"a\"]" -> JVal("list", "")
    [] text = "\"a\"" -> JVal("str", "a")
    [] text = "5" -> JVal("int", "")
    [] text = "null" -> JVal("null", "")
    [] OTHER -> JError

\* int(text) on a Content-Length value: -1 stands for ValueError
int_parse(text) ==
  IF \E n \in 0..MaxLength : ToString(n) = text
  THEN CHOOSE n \in 0..MaxLength : ToString(n) = text
  ELSE -1

Request(path, content_length, body) ==
  [path |-> path, content_length |-> content_length, body |-> body]
\* POST requests: without Content-Length, with "0", with a value that is no number, and
\* with the length of the body that follows
Requests ==
  {Request("/api/check-now", NoneStr, ""), Request("/api/check-now", Some("0"), ""),
   Request("/api/check-now", Some("abc"), "{}"), Request("/api/other", NoneStr, "")}
  \cup {Request("/api/check-now", Some(ToString(Len(b))), b) : b \in Bodies}
\* what a call of do_POST does: the status and payload it sends (status 0, and the
\* exception in raised, when it raises before sending anything) and the name it passes
\* to check_now, if it gets there
Answer(status, payload, raised, name) ==
  [status |-> status, payload |-> payload, raised |-> raised, name |-> name]

do_POST(req) ==
  LET hdr == IF req.content_length.isNone \/ req.content_length.v = "" THEN "0"
             ELSE req.content_length.v
      length == int_parse(hdr)
      raw == IF length = 0 THEN "{}" ELSE req.body
      text == IF raw = "" THEN "{}" ELSE raw
      body == json_loads(text)
      name == body.ns
  IN IF req.path # "/api/check-now" THEN Answer(404, "Not Found", "", NoneStr)
     ELSE IF length < 0 THEN Answer(0, "", "ValueError", NoneStr)
     ELSE IF ~decode_ok(raw) \/ body = JError
       THEN Answer(400, "{\"error\":\"Invalid JSON body\"}", "", NoneStr)
     ELSE IF body.t # "dict" THEN Answer(0, "", "AttributeError", NoneStr)
     ELSE IF ~(body.has /\ body.nt = "str") \/ Strip(name) = ""
       THEN Answer(400, "{\"error\":\"Missing 'name'\"}", "", NoneStr)
     ELSE IF FirstNamed(Strip(name)) = 0
       THEN Answer(404, "{\"error\":\"Unknown endpoint\"}", "", Some(Strip(name)))
     ELSE Answer(202, "{\"ok\":true}", "", Some(Strip(name)))

\* one request handled by Handler.do_POST, check_now included
DoPost ==
  \E req \in Requests :
    /\ Len(responses) < MaxPosts
    /\ LET ans == do_POST(req)
       IN /\ IF ans.name.isNone THEN UNCHANGED <<threads, now_log>>
             ELSE check_now(ans.name.v)
          /\ responses' = Append(responses, [req |-> req, ans |-> ans,
                                             call |-> IF ans.name.isNone THEN 0
                                                      ELSE Len(now_log) + 1])
    /\ UNCHANGED <<probe, status_req, store_vars, endpoint_ids, stop_set, start_call,
                   n_starts, probe_log>>

PostInit ==
  /\ probe = NoProbe(StoreConfigs[1])
  /\ AfterStart

PostNext == DoPost

PostSpec == PostInit /\ [][PostNext]_vars

(***************************************************************************)
(* RowsSpec: the regular loops of the started Monitor, the transport doing *)
(* anything it can                                                         *)
(***************************************************************************)
\* every transport behaviour, an HTTPError without a code (e.code 0) included
RowTransports ==
  Transports
  \cup [kind : {"HTTPError"}, status : {0}, etype : {"HTTPError"}, msg : {"reason"},
        latency_ms : Latencies]

ProbeStepAny(i) == probe_step(i, RowTransports)

RowsInit ==
  /\ probe = NoProbe(StoreConfigs[1])
  /\ AfterStart

RowsNext ==
  \E i \in 1..Len(threads) :
    \/ LoopTest(i)
    \/ ProbeStepAny(i)
    \/ StoreStep(i)
    \/ StoreStepFails(i)

RowsSpec == RowsInit /\ [][RowsNext]_vars

(***************************************************************************)
(* app/httpd.py: GET /api/status, served while the loops write checks      *)
(***************************************************************************)
MaxStatus == 1
DaySeconds == 86400

\* pct(up, total): None without data, else round(up / total * 100.0, 2), kept in
\* hundredths of a percent
pct(up, total) ==
  IF total = 0 THEN NoneInt ELSE Some(((up * 100000) \div total + 5) \div 10)

\* the sort key x["name"].lower() of the configured names, as a rank
NameRank(name) == CASE name = "a" -> 1 [] name = "b" -> 2 [] OTHER -> 3

\* out.sort(key=...): a stable sort
RECURSIVE SortByName(_)
SortByName(out) ==
  IF Len(out) = 0 THEN <<>>
  ELSE LET first == CHOOSE i \in 1..Len(out) :
                      \A j \in 1..Len(out) :
                        \/ NameRank(out[i].name) < NameRank(out[j].name)
                        \/ (NameRank(out[i].name) = NameRank(out[j].name) /\ i <= j)
           rest == [j \in 1..(Len(out) - 1) |-> IF j < first THEN out[j] ELSE out[j + 1]]
       IN <<out[first]>> \o SortByName(rest)

\* self.server.endpoint_ids.items(): the mapped names in the order start() inserted them
Items(ids) ==
  LET ks == {k \in 1..Len(StoreConfigs) : StoreConfigs[k].name \in DOMAIN ids}
      nth[n \in 0..Len(StoreConfigs)] ==
        IF n = 0 THEN 0 ELSE CHOOSE k \in ks : k > nth[n - 1] /\ \A j \in ks : j > nth[n - 1] => k <= j
  IN [n \in 1..Cardinality(ks) |-> StoreConfigs[nth[n]].name]

StatusEntry(name, last, up24, upall) ==
  [name |-> name, last |-> last,
   uptime_24h |-> [up |-> up24[1], total |-> up24[2], pct |-> pct(up24[1], up24[2])],
   uptime_all |-> [up |-> upall[1], total |-> upall[2], pct |-> pct(upall[1], upall[2])]]

\* _handle_status: connect and now = int(time.time())
StatusBegin ==
  /\ status_req.pc \in {"idle", "done"}
  /\ status_req.served < MaxStatus
  /\ status_req' = [NoStatusReq EXCEPT !.served = status_req.served, !.now = clock,
                                       !.i = 1,
                                       !.pc = IF Len(Items(endpoint_ids)) = 0 THEN "send"
                                              ELSE "last"]
  /\ UNCHANGED <<probe, responses, store_vars, monitor_vars>>

\* last = get_last_check(conn, endpoint_id): one SELECT, in a transaction of its own
\* (connect sets isolation_level=None)
StatusLast ==
  /\ status_req.pc = "last"
  /\ status_req' = [status_req EXCEPT
       !.last = get_last_check(endpoint_ids[Items(endpoint_ids)[status_req.i]]),
       !.pc = "up24"]
  /\ UNCHANGED <<probe, responses, store_vars, monitor_vars>>

\* up24, total24 = get_uptime(conn, endpoint_id, since_24h)
StatusUp24 ==
  /\ status_req.pc = "up24"
  /\ status_req' = [status_req EXCEPT
       !.up24 = get_uptime(endpoint_ids[Items(endpoint_ids)[status_req.i]],
                           Some(status_req.now - DaySeconds)),
       !.pc = "upall"]
  /\ UNCHANGED <<probe, responses, store_vars, monitor_vars>>

\* upall, totalall = get_uptime(conn, endpoint_id, None) and out.append(...)
StatusUpAll ==
  /\ status_req.pc = "upall"
  /\ LET name == Items(endpoint_ids)[status_req.i]
         entry == StatusEntry(name, status_req.last, status_req.up24,
                              get_uptime(endpoint_ids[name], NoneInt))
     IN status_req' = [status_req EXCEPT
          !.out = Append(status_req.out, entry),
          !.last = NoStatusReq.last, !.up24 = NoStatusReq.up24,
          !.i = status_req.i + 1,
          !.pc = IF status_req.i = Len(Items(endpoint_ids)) THEN "send" ELSE "last"]
  /\ UNCHANGED <<probe, responses, store_vars, monitor_vars>>

\* out.sort(...) and _json(self, 200, {"endpoints": out, "now": now})
StatusSend ==
  /\ status_req.pc = "send"
  /\ status_req' = [status_req EXCEPT !.out = SortByName(status_req.out), !.pc = "done",
                                      !.served = status_req.served + 1]
  /\ UNCHANGED <<probe, responses, store_vars, monitor_vars>>

StatusInit ==
  /\ probe = NoProbe(StoreConfigs[1])
  /\ AfterStart

StatusNext ==
  \/ StatusBegin
  \/ StatusLast
  \/ StatusUp24
  \/ StatusUpAll
  \/ StatusSend
  \/ ThreadStep

StatusSpec == StatusInit /\ [][StatusNext]_vars

(***************************************************************************)
(* RestartSpec: the Monitor from the return of its first start(), with     *)
(* start() called again on the same object                                 *)
(***************************************************************************)
MaxRestarts == 1

\* start() called on a Monitor that was started before: nothing in start() tells
Restart ==
  /\ start_call.pc \in {"returned", "raised"}
  /\ n_starts < MaxStarts + MaxRestarts
  /\ n_starts' = n_starts + 1
  /\ start_call' = IF Len(StoreConfigs) = 0 THEN [pc |-> "returned", i |-> 0]
                   ELSE [pc |-> "upsert", i |-> 1]
  /\ UNCHANGED <<probe, responses, status_req, store_vars, endpoint_ids, stop_set, threads, probe_log,
                 now_log>>

RestartInit ==
  /\ probe = NoProbe(StoreConfigs[1])
  /\ AfterStart

RestartNext ==
  \/ Restart
  \/ StartUpsert
  \/ StartUpsertFails
  \/ StartLaunch
  \/ Stop
  \/ ThreadStep

RestartSpec == RestartInit /\ [][RestartNext]_vars

ProbeSpec == ProbeInit /\ [][ProbeNext]_vars

UpsertSpec == UpsertInit /\ [][UpsertNext]_vars

ChecksSpec == ChecksInit /\ [][ChecksNext]_vars

Spec == Init /\ [][Next]_vars

\* the threads the Monitor can have started: the loops of each start() and the check-nows
MaxThreads == Len(StoreConfigs) * MaxStarts + MaxNow

\* every thread keeps running: sleep and Event.wait return, run_check returns within its
\* timeout, the store call returns or raises
Fairness ==
  \A i \in 1..MaxThreads :
    /\ WF_vars(i <= Len(threads) /\ LoopTest(i))
    /\ WF_vars(i <= Len(threads) /\ ProbeStep(i))
    /\ WF_vars(i <= Len(threads) /\ (StoreStep(i) \/ StoreStepFails(i)))

FairSpec == Spec /\ Fairness

(***************************************************************************)
(* Claims on the Monitor (Spec)                                            *)
(***************************************************************************)
Configured(name) == \E k \in 1..Len(StoreConfigs) : StoreConfigs[k].name = name
ProbesOf(i) == {k \in 1..Len(probe_log) : probe_log[k].thread = i}
RowsWithId(id) == {j \in 1..Len(checks) : checks[j].id = id}
\* the row insert_check writes for probe k
RowOfProbe(k) ==
  LET p == probe_log[k]
  IN [id |-> p.row, endpoint_id |-> endpoint_ids[StoreConfigs[p.ep].name],
      checked_at |-> p.checked_at, ok |-> IF p.res.ok THEN 1 ELSE 0,
      status_code |-> p.res.status_code, latency_ms |-> p.res.latency_ms,
      error |-> p.res.error]

\* C1 (as claimed, for the runs in which no store write fails): check_now returns false
\* for a name that is not configured and starts nothing; for a configured name it returns
\* true and the thread it started, once ended, has written exactly one check row, whenever
\* in the Monitor's life the call is made.
C1_CheckNowWritesOneRow ==
  \A c \in 1..Len(now_log) :
    LET call == now_log[c]
    IN /\ call.ret = Configured(call.name)
       /\ ~call.ret => call.thread = 0
       /\ call.ret =>
            /\ threads[call.thread].kind = "check-now"
            /\ (/\ threads[call.thread].pc \in {"exit", "died"}
                /\ \A k \in ProbesOf(call.thread) : probe_log[k].raised # "OperationalError")
               => \E k \in ProbesOf(call.thread) :
                    /\ probe_log[k].state = "stored"
                    /\ Cardinality(RowsWithId(probe_log[k].row)) = 1

C6_Rows ==
  /\ Len(checks) = Cardinality({k \in 1..Len(probe_log) : probe_log[k].state = "stored"})
  /\ \A k \in 1..Len(probe_log) :
       IF probe_log[k].state = "stored"
       THEN /\ Cardinality(RowsWithId(probe_log[k].row)) = 1
            /\ \A j \in RowsWithId(probe_log[k].row) : checks[j] = RowOfProbe(k)
            /\ \A m \in 1..Len(probe_log) :
                 (m # k /\ probe_log[m].state = "stored") => probe_log[m].row # probe_log[k].row
       ELSE /\ probe_log[k].row = 0
            /\ (probe_log[k].state = "failed") =
                 (probe_log[k].raised \in {"KeyError", "OperationalError"})

C6_RowsKept ==
  \A j \in 1..Len(checks) : Len(checks') >= j /\ checks'[j] = checks[j]

\* C6 (as claimed): every probe whose cycle has ended, by a store failure too, has exactly
\* one row, no probe has two, and no row ever changes or is removed.
C6_OneRowPerProbe ==
  /\ [](\A k \in 1..Len(probe_log) :
          probe_log[k].state # "running" => Cardinality(RowsWithId(probe_log[k].row)) = 1)
  /\ [][C6_RowsKept]_vars

\* C6 (amended): the checks table holds exactly one row per probe whose store write
\* returned, carrying that probe's outcome, timestamp and endpoint id, and no other row;
\* a probe whose cycle is in progress, or ended by an exception of the store step (the
\* write failed, or the endpoint has no id yet), has no row; once a row is present it
\* never changes and is never removed.
C6_OneRowPerStoredProbe == []C6_Rows /\ [][C6_RowsKept]_vars

\* a regular probe lost to a store failure beside a check-now probe of the same endpoint
\* that has its row
C6_Witness ==
  /\ Len(probe_log) = 2
  /\ Len(checks) = 1
  /\ \E k, m \in 1..2 :
       /\ probe_log[k].state = "failed" /\ probe_log[k].raised = "OperationalError"
       /\ threads[probe_log[k].thread].kind = "loop"
       /\ probe_log[m].state = "stored" /\ checks[1] = RowOfProbe(m)
       /\ threads[probe_log[m].thread].kind = "check-now"
       /\ probe_log[m].ep = probe_log[k].ep

\* the regular loop units launched for the k-th configured endpoint
LoopsOf(k) == {i \in 1..Len(threads) : threads[i].kind = "loop" /\ threads[i].ep = k}
LoopCount(k) == Cardinality(LoopsOf(k))
Ks == 1..Len(StoreConfigs)
AllMapped(ids) == \A k \in Ks : StoreConfigs[k].name \in DOMAIN ids

C11_State ==
  /\ \A k \in Ks : LoopCount(k) <= n_starts
  \* while a call of start() is upserting, and after it has failed, that call has
  \* launched nothing: every endpoint has the units of the earlier calls only
  /\ start_call.pc \in {"idle", "upsert", "raised"} =>
       /\ \A k \in Ks : LoopCount(k) = LoopCount(1)
       /\ \A k \in Ks : IF n_starts = 0 THEN LoopCount(k) = 0 ELSE LoopCount(k) < n_starts
       /\ n_starts <= 1 =>
            /\ \A k \in Ks : LoopCount(k) = 0
            /\ \A p \in 1..Len(probe_log) : threads[probe_log[p].thread].kind # "loop"
  \* the launch loop runs with every endpoint upserted and mapped
  /\ start_call.pc = "launch" =>
       /\ AllMapped(endpoint_ids)
       /\ \A k \in Ks : NameIndex(endpoints, StoreConfigs[k].name) # 0
       /\ \A k \in Ks : LoopCount(k) = LoopCount(Len(StoreConfigs))
                                        + (IF k < start_call.i THEN 1 ELSE 0)
  \* a call that returned has launched one unit per endpoint
  /\ start_call.pc = "returned" =>
       /\ \A k \in Ks : LoopCount(k) = LoopCount(1) /\ LoopCount(k) >= 1
       /\ n_starts = 1 => \A k \in Ks : LoopCount(k) = 1

C11_Step ==
  \* units are launched by the launch loop only, one per turn, for the endpoint of the turn
  /\ \A k \in Ks :
       LoopCount(k)' = LoopCount(k) + (IF /\ start_call.pc = "launch"
                                          /\ start_call' # start_call
                                          /\ start_call.i = k THEN 1 ELSE 0)
  \* the launch loop is entered from the last upsert only, when that upsert returned
  /\ (start_call'.pc = "launch" /\ start_call.pc # "launch") =>
       /\ start_call.pc = "upsert" /\ start_call.i = Len(StoreConfigs)
       /\ store_call'.op = "upsert_endpoint" /\ store_call'.raised = ""
       /\ AllMapped(endpoint_ids')
  \* a failing upsert ends the call of start()
  /\ (start_call.pc = "upsert" /\ start_call' # start_call /\ store_call'.raised # "") =>
       start_call'.pc = "raised"
  /\ (start_call'.pc = "returned" /\ start_call.pc # "returned") =>
       start_call.pc = "launch" /\ start_call.i = Len(StoreConfigs)

\* C11: start() upserts every configured endpoint before it launches any unit: when an
\* upsert fails the call fails with no regular loop unit launched by it (so no regular
\* probe is run), and when every upsert succeeds the call launches exactly one regular
\* loop unit per configured endpoint.
C11_UpsertsBeforeLaunch == []C11_State /\ [][C11_Step]_vars

\* start() failed on the second endpoint's upsert, the first being upserted and mapped
C11_Witness ==
  /\ start_call.pc = "raised"
  /\ store_call.op = "upsert_endpoint" /\ store_call.raised # ""
  /\ Len(endpoints) = 1 /\ DOMAIN endpoint_ids = {StoreConfigs[1].name}
  /\ \A k \in Ks : LoopCount(k) = 0

Ended(i) == i <= Len(threads) /\ threads[i].pc \in {"exit", "died"}
IsLoop(i) == i <= Len(threads) /\ threads[i].kind = "loop"

\* after the signal a unit that was waiting (stagger or interval) leaves by exiting, and a
\* unit in the middle of a check goes on to the end of that check
C12_Step ==
  stop_set =>
    \A i \in 1..Len(threads) :
      (threads[i].kind = "loop" /\ threads'[i] # threads[i]) =>
        /\ threads[i].pc \in {"stagger", "wait"} => threads'[i].pc = "exit"
        /\ threads[i].pc = "probe" => threads'[i].pc = "store"
        /\ threads[i].pc = "store" =>
             /\ threads'[i].pc \in {"wait", "died"}
             /\ probe_log'[threads[i].cur].state \in {"stored", "failed"}

\* C12 (FairSpec): once stop() has set the signal every regular loop unit eventually
\* terminates, given that sleeps, probes and store calls return: a waiting unit exits at
\* its next step without starting a check, a unit in a check finishes it and then exits.
C12_StopTerminatesLoops ==
  /\ \A i \in 1..MaxThreads : (stop_set /\ IsLoop(i)) ~> Ended(i)
  /\ [][C12_Step]_vars

\* a loop that has exited after the signal, having finished the check it was in
C12_Witness ==
  /\ stop_set
  /\ \E i \in 1..Len(threads) :
       /\ threads[i].kind = "loop" /\ threads[i].pc = "exit"
       /\ \E k \in ProbesOf(i) : probe_log[k].stopped /\ probe_log[k].state = "stored"

\* C13 (as claimed): a regular loop whose store write failed is still alive: it goes on
\* to wait for its next tick (and exits only at stop()).
C13_StoreFailureCostsOneTick ==
  \A k \in 1..Len(probe_log) :
    (/\ probe_log[k].state = "failed" /\ probe_log[k].raised = "OperationalError"
     /\ threads[probe_log[k].thread].kind = "loop")
    => threads[probe_log[k].thread].pc \in {"wait", "probe", "store", "exit"}

C14_State ==
  \A j \in 1..Len(threads) :
    threads[j].kind = "loop" =>
      \* a loop ends abnormally only by a failure of its own store write
      /\ threads[j].pc = "died" =>
           \E k \in ProbesOf(j) : k = threads[j].cur /\ probe_log[k].state = "failed"
      \* whatever became of the other units, the next step of a live loop can be taken
      /\ (threads[j].pc \in {"stagger", "wait"} /\ (stop_set \/ Committed < MaxProbes))
           => ENABLED LoopTest(j)
      /\ threads[j].pc = "probe" => ENABLED ProbeStep(j)
      /\ threads[j].pc = "store" => ENABLED StoreStep(j)

\* a step of one unit, failing or not, leaves every other unit where it was
C14_Step ==
  \A i \in 1..Len(threads) :
    threads'[i] # threads[i] =>
      \A j \in 1..Len(threads) : j # i => threads'[j] = threads[j]

\* C14: a probe failure or a store failure in one endpoint's unit (regular loop or
\* check-now) never stops, blocks or terminates the regular loop of another endpoint:
\* a loop ends abnormally only by its own store failure, no step of a unit changes
\* another unit, and a live loop's next step is never disabled by another unit's fate.
C14_FailuresAreIsolated == []C14_State /\ [][C14_Step]_vars

\* the first endpoint's loop died of a store failure and the second endpoint's loop,
\* probing later, has its row and waits for its next tick
C14_Witness ==
  \E k, m \in 1..Len(probe_log) :
    /\ k < m
    /\ probe_log[k].ep = 1 /\ probe_log[k].state = "failed"
    /\ threads[probe_log[k].thread].pc = "died"
    /\ probe_log[m].ep = 2 /\ probe_log[m].state = "stored"
    /\ \E jr \in RowsWithId(probe_log[m].row) : checks[jr] = RowOfProbe(m)
    /\ threads[probe_log[m].thread].kind = "loop"
    /\ threads[probe_log[m].thread].pc = "wait"

\* C17 (as claimed): a regular unit is Idle until start(), Running from start() until
\* stop(), Stopped from then on, and nothing else: it leaves Running at stop() only, so a
\* unit that has ended has ended after the stop signal, and a unit exists only once
\* start() has been called.
C17_IdleRunningStopped ==
  \A i \in 1..Len(threads) :
    threads[i].kind = "loop" =>
      /\ n_starts >= 1
      /\ threads[i].pc \in {"exit", "died"} => stop_set

\* two cycles of one endpoint that were in progress together: m started after k and
\* wrote before it
Interleaved(k, m) ==
  /\ k < m /\ probe_log[k].ep = probe_log[m].ep
  /\ probe_log[k].state = "stored" /\ probe_log[m].state = "stored"
  /\ probe_log[m].row < probe_log[k].row

C18_State ==
  \A k, m \in 1..Len(probe_log) :
    (k # m /\ probe_log[k].ep = probe_log[m].ep
     /\ probe_log[k].state = "stored" /\ probe_log[m].state = "stored") =>
      /\ probe_log[k].row # probe_log[m].row
      /\ \E j \in 1..Len(checks) : checks[j] = RowOfProbe(k)
      /\ \E j \in 1..Len(checks) : checks[j] = RowOfProbe(m)
      /\ Len(checks) >= 2

\* neither check_now nor a step of a check-now thread changes a regular loop, which
\* goes on to its next tick as it would have
C18_Step ==
  \A i \in 1..Len(threads) :
    (threads[i].kind = "loop" /\ threads'[i] # threads[i]) =>
      /\ Len(now_log') = Len(now_log)
      /\ \A j \in 1..Len(threads) : threads[j].kind = "check-now" => threads'[j] = threads[j]
      /\ threads'[i].pc \in CASE threads[i].pc = "stagger" -> {"probe", "exit"}
                              [] threads[i].pc = "wait" -> {"probe", "exit"}
                              [] threads[i].pc = "probe" -> {"store"}
                              [] threads[i].pc = "store" -> {"wait", "died"}
                              [] OTHER -> {}

\* C18: check-now cycles and the regular cycle of one endpoint may be in progress
\* together and no write is lost: when the writes of concurrent cycles of an endpoint
\* all return, the store holds one distinct row per cycle, each with its own cycle's
\* values, in whatever order they interleave; and a check-now neither cancels, delays
\* nor replaces the regular loop's next tick.
C18_ConcurrentWritesKept ==
  /\ []C18_State
  /\ [][C18_Step]_vars
  /\ [](\A i \in 1..Len(threads) :
          (threads[i].kind = "loop" /\ threads[i].pc = "wait"
           /\ (stop_set \/ Committed < MaxProbes)) => ENABLED LoopTest(i))

\* a regular cycle and a check-now cycle of one endpoint, the later started written first
C18_Witness ==
  \E k, m \in 1..Len(probe_log) :
    /\ Interleaved(k, m)
    /\ threads[probe_log[k].thread].kind = "loop"
    /\ threads[probe_log[m].thread].kind = "check-now"
    /\ probe_log[k].checked_at = probe_log[m].checked_at
    /\ threads[probe_log[k].thread].pc = "wait"

\* the probes thread i started with the stop signal already set
LateProbes(i) == {k \in ProbesOf(i) : probe_log[k].stopped}

C19_State ==
  \A i \in 1..Len(threads) :
    threads[i].kind = "loop" =>
      /\ Cardinality(LateProbes(i)) <= 1
      /\ Cardinality({j \in 1..Len(checks) :
                        \E k \in LateProbes(i) : checks[j].id = probe_log[k].row}) <= 1
      \* the late probe is the loop's last
      /\ \A k \in LateProbes(i) : \A m \in ProbesOf(i) : m <= k

\* once set the signal stays set; from then on no loop passes its test: a loop about to
\* probe is one that was about to probe already, and a loop waiting (stagger or
\* interval) or launched later never gets there
C19_Step ==
  stop_set =>
    /\ stop_set'
    /\ \A i \in 1..Len(threads') :
         (threads'[i].kind = "loop" /\ threads'[i].pc = "probe") =>
           i <= Len(threads) /\ threads[i].pc = "probe"

\* C19: once the stop signal is set each regular loop starts at most one further probe,
\* the one whose loop test preceded the signal, and writes at most one row for it; a
\* loop in its start-up stagger or its interval wait when the signal is set starts none.
C19_AtMostOneProbeAfterStop == []C19_State /\ [][C19_Step]_vars

\* every loop has exited after the signal: one made its one further probe and wrote
\* its row, another, which was waiting, made none
C19_Witness ==
  /\ stop_set
  /\ \A i \in 1..Len(threads) : threads[i].kind = "loop" => threads[i].pc = "exit"
  /\ \E i, j \in 1..Len(threads) :
       /\ threads[i].kind = "loop" /\ threads[j].kind = "loop"
       /\ \E k \in LateProbes(i) : probe_log[k].state = "stored"
       /\ ProbesOf(j) # {} /\ LateProbes(j) = {}

Names == {StoreConfigs[k].name : k \in Ks}
NameOfProbe(k) == StoreConfigs[probe_log[k].ep].name

C20_State ==
  \* the mapping holds configured names only, each with the id of its row in the store
  /\ DOMAIN endpoint_ids \subseteq Names
  /\ \A n \in DOMAIN endpoint_ids :
       NameIndex(endpoints, n) # 0 /\ endpoint_ids[n] = select_id(endpoints, n)
  \* it is complete before the first unit is launched, and when start() has returned
  /\ (start_call.pc \in {"launch", "returned"} \/ \E k \in Ks : LoopCount(k) > 0)
       => DOMAIN endpoint_ids = Names
  \* a cycle that found its id wrote its row under it; a regular cycle always finds it;
  \* a cycle that did not find it is a check-now and has no row
  /\ \A k \in 1..Len(probe_log) :
       /\ probe_log[k].state = "stored" =>
            /\ NameOfProbe(k) \in DOMAIN endpoint_ids
            /\ \A j \in RowsWithId(probe_log[k].row) :
                 checks[j].endpoint_id = select_id(endpoints, NameOfProbe(k))
       /\ probe_log[k].raised = "KeyError" =>
            /\ threads[probe_log[k].thread].kind = "check-now"
            /\ probe_log[k].state = "failed" /\ probe_log[k].row = 0

C20_Step ==
  \* the mapping is written by the upsert loop of start() only, with no unit launched
  \* yet, one name at a time, and what it holds is never changed
  /\ endpoint_ids' # endpoint_ids =>
       /\ start_call.pc = "upsert"
       /\ \A k \in Ks : LoopCount(k) = 0
       /\ DOMAIN endpoint_ids' = DOMAIN endpoint_ids \cup {StoreConfigs[start_call.i].name}
       /\ \A n \in DOMAIN endpoint_ids : endpoint_ids'[n] = endpoint_ids[n]
  \* a store step that gets to the lookup finds the id exactly when the mapping has the
  \* name (a step raising OperationalError failed in connect or in the INSERT)
  /\ \A i \in 1..Len(threads) :
       (/\ threads[i].pc = "store" /\ threads'[i] # threads[i]
        /\ probe_log'[threads[i].cur].raised # "OperationalError") =>
         /\ (probe_log'[threads[i].cur].raised = "KeyError")
              = (NameOfProbe(threads[i].cur) \notin DOMAIN endpoint_ids)
         /\ (probe_log'[threads[i].cur].state = "stored")
              = (NameOfProbe(threads[i].cur) \in DOMAIN endpoint_ids)

LoopProbes(k) ==
  {p \in 1..Len(probe_log) : probe_log[p].ep = k /\ threads[probe_log[p].thread].kind = "loop"}

\* C16 (as claimed): over any sequence of start(), stop() and check_now() calls, an
\* endpoint has at most one regular cycle (probe made, store write pending) in progress,
\* and a regular probe of an endpoint starts only when the endpoint's earlier regular
\* cycles have ended.
C16_RegularChecksNeverOverlap ==
  \A k \in Ks :
    /\ Cardinality({i \in LoopsOf(k) : threads[i].pc = "store"}) <= 1
    /\ \A p, q \in LoopProbes(k) : p < q => probe_log[p].state # "running"

(***************************************************************************)
(* Claims on POST /api/check-now (PostSpec)                                *)
(***************************************************************************)
\* the answer the API description gives a body: 400 when it is no valid JSON or carries
\* no usable name (a JSON value that is no object included), 404 for a name that is not
\* configured, 202 for a configured one
ClaimedStatus(req) ==
  LET raw == IF req.content_length.isNone \/ req.content_length.v \in {"", "0"}
             THEN "{}" ELSE req.body
      body == IF decode_ok(raw) THEN json_loads(raw) ELSE JError
  IN IF ~(body.t = "dict" /\ body.has /\ body.nt = "str") THEN 400
     ELSE IF Strip(body.ns) = "" THEN 400
     ELSE IF Configured(Strip(body.ns)) THEN 202 ELSE 404

\* C15 (as claimed): every POST /api/check-now with a well-formed Content-Length is
\* answered with exactly one of 202, 400 and 404, as its body commands, the handler
\* never fails without a response, and check_now is called on the 202 and 404 paths only
\* (returning true on the first, false on the second).
C15_PostAlwaysAnswered ==
  \A r \in 1..Len(responses) :
    LET req == responses[r].req
        ans == responses[r].ans
    IN (req.path = "/api/check-now" /\ int_parse(IF req.content_length.isNone THEN "0"
                                                  ELSE req.content_length.v) >= 0) =>
         /\ ans.raised = ""
         /\ ans.status = ClaimedStatus(req)
         /\ (responses[r].call # 0) = (ans.status \in {202, 404})
         /\ responses[r].call # 0 => now_log[responses[r].call].ret = (ans.status = 202)

(***************************************************************************)
(* Claims on the rows the Monitor stores (RowsSpec)                        *)
(***************************************************************************)
WellFormed(row) ==
  /\ row.ok \in {0, 1}
  /\ row.ok = 1 => (~row.status_code.isNone /\ row.error.isNone)
  /\ row.status_code.isNone => (row.ok = 0 /\ ~row.error.isNone)
  /\ ~row.latency_ms.isNone

\* C22: every check row the Monitor stores is well formed: ok implies a status code and
\* no error; no status code implies not ok and an error; latency_ms is always present;
\* and error is present exactly when the transport raised (an HTTP error, or a failure
\* before any status).
C22_RowsWellFormed ==
  /\ \A j \in 1..Len(checks) :
       /\ WellFormed(checks[j])
       /\ \E k \in 1..Len(probe_log) :
            probe_log[k].state = "stored" /\ probe_log[k].row = checks[j].id
  /\ \A k \in 1..Len(probe_log) :
       probe_log[k].state = "stored" =>
         \A j \in RowsWithId(probe_log[k].row) :
           /\ checks[j] = RowOfProbe(k)
           /\ (~checks[j].error.isNone) = (probe_log[k].t.kind \in {"HTTPError", "exception"})
           /\ checks[j].status_code.isNone =
                (probe_log[k].t.kind = "exception"
                 \/ (probe_log[k].t.kind = "HTTPError" /\ probe_log[k].t.status = 0))

\* the three shapes of row together: an accepted response, an HTTP error with its code,
\* a failure without a status
C22_Witness ==
  \E j1, j2 \in 1..Len(checks) :
    /\ checks[j1].ok = 1 /\ ~checks[j1].status_code.isNone /\ checks[j1].error.isNone
    /\ checks[j2].ok = 0 /\ checks[j2].status_code.isNone /\ ~checks[j2].error.isNone
    /\ ~checks[j2].latency_ms.isNone
    /\ \E k \in 1..Len(probe_log) :
         probe_log[k].row = checks[j2].id /\ probe_log[k].t.kind = "HTTPError"

(***************************************************************************)
(* Claims on GET /api/status (StatusSpec)                                  *)
(***************************************************************************)
\* C21 (as claimed): every endpoint entry of a status response is consistent with one
\* state of the store, also when checks are written while the response is built: last
\* is null exactly when uptime_all.total is 0, the 24-hour counts do not exceed the
\* all-time counts, and each pct is null exactly when its total is 0.
C21_StatusEntryConsistent ==
  status_req.pc = "done" =>
    \A n \in 1..Len(status_req.out) :
      LET e == status_req.out[n]
      IN /\ e.last.isNone = (e.uptime_all.total = 0)
         /\ e.uptime_24h.total <= e.uptime_all.total
         /\ e.uptime_24h.up <= e.uptime_all.up
         /\ e.uptime_24h.pct.isNone = (e.uptime_24h.total = 0)
         /\ e.uptime_all.pct.isNone = (e.uptime_all.total = 0)

(***************************************************************************)
(* Claims on upsert_endpoint (UpsertSpec)                                  *)
(***************************************************************************)
C10_State ==
  /\ \A i, j \in 1..Len(endpoints) :
       (endpoints[i].name = endpoints[j].name \/ endpoints[i].id = endpoints[j].id) => i = j
  /\ (store_call.op = "upsert_endpoint" /\ store_call.raised = "") =>
       LET rows == {r \in RowsOf(endpoints) : r.name = store_call.ep.name}
           a == upsert_args(store_call.ep)
       IN /\ Cardinality(rows) = 1
          /\ \A r \in rows :
               /\ r.id = store_call.ret
               /\ r.url = a.url /\ r.method = a.method
               /\ r.interval_seconds = a.interval_seconds
               /\ r.timeout_seconds = a.timeout_seconds
               /\ r.headers_json = a.headers_json
               /\ r.expected_statuses_json = a.expected_statuses_json
               /\ store_call.before.id # 0 =>
                    (r.id = store_call.before.id /\ r.created_at = store_call.before.created_at)

C10_Step ==
  /\ \A r \in RowsOf(endpoints) :
       \E q \in RowsOf(endpoints') :
         /\ q.name = r.name /\ q.id = r.id /\ q.created_at = r.created_at
         /\ (store_call'.op # "upsert_endpoint" \/ store_call'.raised # ""
               \/ store_call'.ep.name # r.name) => q = r
  /\ Len(endpoints') \in {Len(endpoints), Len(endpoints) + 1}

\* C10: the endpoints table holds one row per distinct name and distinct names have
\* distinct ids; an upsert returns the id of the row of its name, which carries the
\* call's url, method, interval, timeout, headers and statuses; for a name that existed
\* the id and created_at are those it had; no step changes the id or created_at of any
\* row, or any field of a row of another name.
C10_UpsertByName == []C10_State /\ [][C10_Step]_vars

\* an upsert of an existing name with a changed url, made after the clock advanced:
\* the row keeps its id and created_at and carries the new url, beside another name's row
C10_Witness ==
  /\ store_call.op = "upsert_endpoint"
  /\ store_call.raised = ""
  /\ store_call.before.id = 1
  /\ store_call.ret = 1
  /\ store_call.before.url = "http://svc/health"
  /\ store_call.ep.url = "http://svc/v2"
  /\ store_call.before.created_at < clock
  /\ Len(endpoints) = 2
  /\ endpoints[1].url = "http://svc/v2"

(***************************************************************************)
(* Claims on the checks table (ChecksSpec)                                 *)
(***************************************************************************)
EndpointIds == 1..(Len(StoreConfigs) + 1)
\* the positions in ins_log of the calls made for an endpoint id
CallsFor(id) == {i \in 1..Len(ins_log) : ins_log[i].endpoint_id = id}
CallRow(i) ==
  [checked_at |-> ins_log[i].checked_at, ok |-> ins_log[i].ok,
   status_code |-> ins_log[i].status_code, latency_ms |-> ins_log[i].latency_ms,
   error |-> ins_log[i].error]
MaxOf(S) == CHOOSE x \in S : \A y \in S : y <= x
MinOf(a, b) == IF a <= b THEN a ELSE b

\* C7: uptime(id, no since) is (number of insert_check calls for id that returned with
\* ok = true, number of insert_check calls for id that returned), so up <= total; with a
\* since value both counts range over the calls with checked_at >= since; an id with no
\* rows gives (0, 0).
C7_UptimeCounts ==
  \A id \in EndpointIds :
    /\ get_uptime(id, NoneInt) =
         <<Cardinality({i \in CallsFor(id) : ins_log[i].ok}), Cardinality(CallsFor(id))>>
    /\ get_uptime(id, NoneInt)[1] <= get_uptime(id, NoneInt)[2]
    /\ \A since \in 0..(MaxCheckedAt + 1) :
         get_uptime(id, Some(since)) =
           <<Cardinality({i \in CallsFor(id) : ins_log[i].ok /\ ins_log[i].checked_at >= since}),
             Cardinality({i \in CallsFor(id) : ins_log[i].checked_at >= since})>>
    /\ CallsFor(id) = {} => get_uptime(id, NoneInt) = <<0, 0>>

\* endpoint 1 with an up and a down row, one of them outside the window, and endpoint 2
\* with rows of its own
C7_Witness ==
  /\ get_uptime(1, NoneInt) = <<1, 2>>
  /\ get_uptime(1, Some(1))[2] = 1
  /\ get_uptime(2, NoneInt)[2] = 1
  /\ store_call.raised = "OperationalError"

\* C8 (as claimed): after N >= 1 insert_check calls for an endpoint, lastCheck returns
\* the Nth inserted result; with no rows it returns absent.
C8_LastIsNthInserted ==
  \A id \in EndpointIds :
    get_last_check(id) =
      IF CallsFor(id) = {} THEN NoCheckRow ELSE Some(CallRow(MaxOf(CallsFor(id))))

\* C8 (amended): lastCheck returns the inserted result with the greatest checked_at, the
\* latest inserted among those that share it; this is the Nth inserted result whenever
\* no earlier insert of that endpoint carries a greater checked_at; with no rows it returns
\* absent; rows of other endpoints do not count.
C8_LastIsGreatest ==
  \A id \in EndpointIds :
    LET calls == CallsFor(id)
        top == CHOOSE i \in calls :
                 \A j \in calls :
                   \/ ins_log[j].checked_at < ins_log[i].checked_at
                   \/ (ins_log[j].checked_at = ins_log[i].checked_at /\ j <= i)
    IN IF calls = {} THEN get_last_check(id) = NoCheckRow
       ELSE /\ get_last_check(id) = Some(CallRow(top))
            /\ (\A j \in calls : ins_log[j].checked_at <= ins_log[MaxOf(calls)].checked_at)
                 => get_last_check(id) = Some(CallRow(MaxOf(calls)))

\* two inserts for endpoint 1 share checked_at and differ in ok; a later insert for
\* endpoint 2 carries a greater checked_at; lastCheck(1) is the second insert
C8_Witness ==
  /\ Len(ins_log) = 3
  /\ ins_log[1].endpoint_id = 1 /\ ins_log[2].endpoint_id = 1 /\ ins_log[3].endpoint_id = 2
  /\ ins_log[1].checked_at = 0 /\ ins_log[2].checked_at = 0 /\ ins_log[3].checked_at = 1
  /\ ins_log[1].ok /\ ~ins_log[2].ok /\ ins_log[3].ok
  /\ get_last_check(1) = Some(CallRow(2))
  /\ get_last_check(3) = NoCheckRow

\* C9: history(id, limit) holds min(limit, rows of id) rows, all of that endpoint, in
\* descending (checked_at, insertion order), and every row left out is older than every
\* row returned; history(id, 1) is lastCheck(id) when a row exists; a limit of at least
\* the row count returns every row.
C9_History ==
  \A id \in EndpointIds :
    \A limit \in 0..(MaxChecks + 1) :
      LET h == select_history(id, limit)
          all == OfEndpoint(id)
      IN /\ Len(h) = MinOf(limit, Cardinality(all))
         /\ \A i \in 1..Len(h) : h[i] \in all
         /\ \A i, j \in 1..Len(h) :
              i < j => \/ h[i].checked_at > h[j].checked_at
                       \/ (h[i].checked_at = h[j].checked_at /\ h[i].id > h[j].id)
         /\ \A r \in all \ RowsOf(h) :
              \A i \in 1..Len(h) :
                \/ h[i].checked_at > r.checked_at
                \/ (h[i].checked_at = r.checked_at /\ h[i].id > r.id)
         /\ get_history(id, limit) = [i \in 1..Len(h) |-> CheckRow(h[i])]
         /\ (all # {} /\ limit = 1) => get_history(id, 1) = <<get_last_check(id).v>>
         /\ limit >= Cardinality(all) => RowsOf(h) = all

\* endpoint 1 with three rows inserted with checked_at 1, 0, 1: the history is the third,
\* the first, the second; limit 1 gives the third alone
C9_Witness ==
  /\ Len(checks) = 3
  /\ \A i \in 1..3 : checks[i].endpoint_id = 1
  /\ checks[1].checked_at = 1 /\ checks[2].checked_at = 0 /\ checks[3].checked_at = 1
  /\ select_history(1, 3) = <<checks[3], checks[1], checks[2]>>
  /\ get_history(1, 1) = <<CheckRow(checks[3])>>
  /\ Len(get_history(1, 2)) = 2

(***************************************************************************)
(* Claims on the prober (ProbeSpec)                                        *)
(***************************************************************************)
\* the acceptance rule as the specification words it: an explicit list of any size
\* decides by membership, no list decides by the range [200, 400)
SpecRule(status, expected_statuses) ==
  IF ~expected_statuses.isNone
  THEN status \in Elems(expected_statuses.v)
  ELSE status \in 200..399

\* C2 (as claimed): after an HTTPError the outcome carries the response's status code and
\* a latency, and ok is what the acceptance rule of a normal response gives for that
\* status.
C2_HttpErrorUsesAcceptanceRule ==
  (probe.called /\ probe.t.kind = "HTTPError") =>
    /\ probe.res.raised = ""
    /\ probe.res.status_code = Some(probe.t.status)
    /\ ~probe.res.latency_ms.isNone
    /\ probe.res.ok = _is_ok_status(probe.t.status, probe.ep.expected_statuses)

\* C3 (as claimed): for a response with status s, ok is membership in the accepted list
\* whenever the config gives a list, of any size, and 200 <= s < 400 otherwise.
C3_AcceptanceRuleAnyList ==
  (probe.called /\ probe.t.kind = "response") =>
    probe.res.ok = SpecRule(probe.t.status, probe.ep.expected_statuses)

\* C3 (amended): for a response with status s, ok is membership in the accepted list
\* when the config gives a non-empty list, and 200 <= s < 400 when it gives no list or
\* an empty one; the status is recorded and no error is.
C3_AcceptanceRule ==
  (probe.called /\ probe.t.kind = "response") =>
    LET e == probe.ep.expected_statuses
        s == probe.t.status
    IN /\ probe.res.status_code = Some(s)
       /\ probe.res.error = NoneStr
       /\ probe.res.ok = IF ~e.isNone /\ Elems(e.v) # {}
                         THEN s \in Elems(e.v)
                         ELSE s \in 200..399

\* the cases of C3: an empty list with an in-range status (ok), and the list
\* [201, 202] with a 200 (not ok)
C3_Witness ==
  /\ probe.called
  /\ probe.t.kind = "response"
  /\ \/ probe.ep.expected_statuses = Some(<<>>) /\ probe.t.status = 200 /\ probe.res.ok
     \/ probe.ep.expected_statuses = Some(<<201, 202>>) /\ probe.t.status = 200
          /\ ~probe.res.ok

\* C4 (as claimed): run_check returns an outcome with a latency for every validated
\* config and every behaviour of the transport; it never raises.
C4_NeverRaises ==
  probe.called => (probe.res.raised = "" /\ ~probe.res.latency_ms.isNone)

\* C5: a probe that fails before a status code is obtained has no status code, ok = false
\* and a non-empty error made of the exception's type name and its message.
C5_TransportFailureOutcome ==
  (probe.called /\ probe.t.kind = "exception") =>
    /\ probe.res.raised = ""
    /\ probe.res.status_code = NoneInt
    /\ probe.res.ok = FALSE
    /\ ~probe.res.latency_ms.isNone
    /\ probe.res.error = Some(probe.t.etype \o ": " \o probe.t.msg)
    /\ Len(probe.res.error.v) > Len(probe.t.msg)

\* a timeout met by a config whose accepted list would not matter
C5_Witness ==
  /\ probe.called
  /\ probe.t.kind = "exception"
  /\ probe.t.etype = "TimeoutError"
  /\ probe.t.msg = "timed out"
  /\ probe.res.error = Some("TimeoutError: timed out")

=============================================================================
